---- MODULE Spec2Model ----
(***************************************************************************)
(* Model of the pool-monitor HTTP gateway (src/src/main.rs).               *)
(*                                                                         *)
(* Four actix handlers relay requests to a Solana RPC node (get_slot,      *)
(* get_account, run inside tokio::task::spawn_blocking) and to the Solscan *)
(* REST API (reqwest).  A request's handler is an async task: it runs      *)
(* atomically from one .await to the next; the spawn_blocking closure runs *)
(* on a worker thread and blocks inside each RPC call.  The upstream       *)
(* services are the environment: every pending call returns one of the     *)
(* outcomes the client libraries can produce.                              *)
(***************************************************************************)
EXTENDS Integers, Sequences, FiniteSets, TLC

VARIABLES request, pc, task, taskres, parsed, calls, responses

vars == <<request, pc, task, taskres, parsed, calls, responses>>

(* Number of concurrent inbound requests (one task per request). *)
NumReq == 2

Reqs == 1..NumReq

-----------------------------------------------------------------------------
(* Path parameters.  An address string is described by what Pubkey::from_str
   looks at: whether every character is in the base58 alphabet and how many
   bytes it decodes to. *)

Good1 == [text |-> "So11111111111111111111111111111111111111112", b58 |-> TRUE, size |-> 32]
Good2 == [text |-> "EPjFWdd5AufqSSqeM2qN1xzybapC8G4wEGGkZwyTDt1v", b58 |-> TRUE, size |-> 32]
Bad == [text |-> "not-a-key", b58 |-> FALSE, size |-> 0]
NoParam == [text |-> "", b58 |-> FALSE, size |-> 0]

PoolIds == {Good1, Bad}
TokensA == {Good1, Bad}
TokensB == {Good2, Bad}
Tokens == {Good1, Bad}

Requests ==
    {[endpoint |-> "status", a |-> NoParam, b |-> NoParam]}
    \cup {[endpoint |-> "pool", a |-> x, b |-> NoParam] : x \in PoolIds}
    \cup {[endpoint |-> "pair", a |-> x, b |-> y] : x \in TokensA, y \in TokensB}
    \cup {[endpoint |-> "tx", a |-> x, b |-> NoParam] : x \in Tokens}

(* Pubkey::from_str: base58-decode, then require exactly 32 bytes. *)
Pubkey_from_str(s) ==
    IF ~s.b58 THEN [ok |-> FALSE, key |-> "", err |-> "Invalid Base58 string"]
    ELSE IF s.size # 32 THEN [ok |-> FALSE, key |-> "", err |-> "String is the wrong size"]
    ELSE [ok |-> TRUE, key |-> s.text, err |-> ""]

-----------------------------------------------------------------------------
(* Upstream outcomes.  One flat record shape for every call result:
   n is the slot, the lamports or the HTTP status; len the account data size. *)

Pending == [tag |-> "Pending", n |-> 0, len |-> 0, err |-> ""]
OkOut(n, len) == [tag |-> "Ok", n |-> n, len |-> len, err |-> ""]
ErrOut(e) == [tag |-> "Err", n |-> 0, len |-> 0, err |-> e]

SlotOutcomes == {OkOut(12345, 0), ErrOut("RPC request error")}
AccountOutcomes == {OkOut(2039280, 165), ErrOut("AccountNotFound")}
SendOutcomes == {OkOut(200, 0), OkOut(429, 0), ErrOut("error sending request")}

(* Raw HTTP bodies: a well-formed JSON object is the sequence of its members
   as they appear in the text (any order, duplicates allowed). *)
NoBody == [read |-> FALSE, wf |-> FALSE, members |-> <<>>]
RawBody(wf, ms) == [read |-> TRUE, wf |-> wf, members |-> ms]
RawBodies ==
    { RawBody(TRUE, << <<"b", 1>>, <<"a", 2>> >>),
      RawBody(TRUE, << <<"a", 1>>, <<"a", 3>> >>),
      RawBody(FALSE, <<>>) }

KeyOrder == <<"a", "b">>

create_rpc_client ==
    [url |-> "https://api.mainnet-beta.solana.com", commitment |-> "confirmed"]

(* An upstream call in flight or returned; site is the source line issuing it. *)
Call(site, op, target, arg) ==
    [site |-> site, op |-> op, target |-> target, arg |-> arg, out |-> Pending, body |-> NoBody]

-----------------------------------------------------------------------------
(* serde_json: text -> Value -> text.  A Value object is a map from key to
   value (a later duplicate replaces an earlier one); serialisation writes the
   members in key order. *)

LastIndex(ms, k) ==
    CHOOSE i \in DOMAIN ms :
        /\ ms[i][1] = k
        /\ \A j \in DOMAIN ms : ms[j][1] = k => j <= i

json_parse(raw) ==
    IF ~raw.wf
    THEN [ok |-> FALSE, value |-> <<>>, err |-> "expected value at line 1 column 1"]
    ELSE [ok |-> TRUE,
          value |-> [k \in {raw.members[i][1] : i \in DOMAIN raw.members} |->
                        raw.members[LastIndex(raw.members, k)][2]],
          err |-> ""]

InValue(v, k) == k \in DOMAIN v

json_serialize(v) ==
    LET keys == SelectSeq(KeyOrder, LAMBDA k : InValue(v, k))
    IN  [i \in 1..Len(keys) |-> <<keys[i], v[keys[i]]>>]

-----------------------------------------------------------------------------
(* Responses.  body is the serde_json Value the handler hands to .json(),
   which writes json_serialize(body) on the wire.  An error message is the
   sequence of the words of the format string followed by the cause's text. *)

Msg(prefix, cause) == prefix \o <<":", cause>>

StartsWith(msg, prefix) ==
    /\ Len(msg) >= Len(prefix)
    /\ SubSeq(msg, 1, Len(prefix)) = prefix

ErrorResponse(status, prefix, cause) ==
    [status |-> status, body |-> [error |-> Msg(prefix, cause)]]

TaskFailed(e) == ErrorResponse(500, <<"Task", "failed">>, e)

(* Variant: a process-wide counter of served requests leaks into the body. *)
StatusOk_counted(slot) ==
    [status |-> 200,
     body |-> [status |-> "connected",
               current_slot |-> slot + Cardinality({q \in Reqs : pc[q] = "done"})]]

StatusOk(slot) ==
    [status |-> 200, body |-> [status |-> "connected", current_slot |-> slot]]

StatusRpcErr(e) == ErrorResponse(500, <<"Failed", "to", "get", "slot">>, e)

InvalidPoolId(e) == ErrorResponse(400, <<"Invalid", "pool", "ID">>, e)

PoolOk(pool_id, account) ==
    [status |-> 200,
     body |-> [pool_id |-> pool_id, lamports |-> account.n, data_size |-> account.len]]

(* Variant: the RPC-error arm reuses the join-error message. *)
PoolRpcErr_as_task(e) == ErrorResponse(500, <<"Task", "failed">>, e)

PoolRpcErr(e) == ErrorResponse(500, <<"Failed", "to", "get", "account">>, e)

InvalidTokenA(e) == ErrorResponse(400, <<"Invalid", "token", "A", "address">>, e)

InvalidTokenB(e) == ErrorResponse(400, <<"Invalid", "token", "B", "address">>, e)

PairOk(token_a, token_b, a_info, b_info) ==
    [status |-> 200,
     body |-> [token_a |-> [address |-> token_a, data_size |-> a_info.len],
               token_b |-> [address |-> token_b, data_size |-> b_info.len]]]

PairRpcErr(e) == ErrorResponse(500, <<"Failed", "to", "get", "token", "info">>, e)

(* Variant: only the first member of the upstream object is relayed. *)
TxOk_truncated(data) ==
    [status |-> 200,
     body |-> [k \in {x \in DOMAIN data : x = KeyOrder[1]} |-> data[k]]]

TxOk(data) == [status |-> 200, body |-> data]

TxParseErr(e) == ErrorResponse(500, <<"Failed", "to", "parse", "response">>, e)

TxFetchErr(e) == ErrorResponse(500, <<"Failed", "to", "fetch", "from", "Solscan">>, e)

SolscanUrl == "https://public-api.solscan.io/token/transfers?token={}&limit=50"

-----------------------------------------------------------------------------
(* Result of a spawn_blocking task as seen through its JoinHandle. *)

NoRes == [tag |-> "None", a |-> Pending, b |-> Pending, err |-> ""]
OkOk(a, b) == [tag |-> "OkOk", a |-> a, b |-> b, err |-> ""]
OkErr(e) == [tag |-> "OkErr", a |-> Pending, b |-> Pending, err |-> e]
JoinErr(e) == [tag |-> "JoinErr", a |-> Pending, b |-> Pending, err |-> e]

Init ==
    /\ request \in [Reqs -> Requests]
    /\ pc = [r \in Reqs |-> "accepted"]
    /\ task = [r \in Reqs |-> "none"]
    /\ taskres = [r \in Reqs |-> NoRes]
    /\ parsed = [r \in Reqs |-> <<>>]
    /\ calls = [r \in Reqs |-> <<>>]
    /\ responses = [r \in Reqs |-> <<>>]

Respond(r, resp) ==
    /\ responses' = [responses EXCEPT ![r] = Append(@, resp)]
    /\ pc' = [pc EXCEPT ![r] = "done"]

Spawn(r) ==
    /\ task' = [task EXCEPT ![r] = "ready"]
    /\ pc' = [pc EXCEPT ![r] = "await_join"]

Issue(r, call) == calls' = [calls EXCEPT ![r] = Append(@, call)]

Return(r, o) == calls' = [calls EXCEPT ![r] = [@ EXCEPT ![Len(calls[r])].out = o]]

Finish(r, res) ==
    /\ task' = [task EXCEPT ![r] = "finished"]
    /\ taskres' = [taskres EXCEPT ![r] = res]

(* ---- GET /solana/status ---- *)

get_solana_status_start(r) ==
    /\ pc[r] = "accepted"
    /\ request[r].endpoint = "status"
    /\ Spawn(r)
    /\ UNCHANGED <<request, taskres, parsed, calls, responses>>

slot_closure(r) ==
    /\ task[r] = "ready"
    /\ request[r].endpoint = "status"
    /\ Issue(r, Call(26, "get_slot", create_rpc_client.url, ""))
    /\ task' = [task EXCEPT ![r] = "blocked"]
    /\ UNCHANGED <<request, pc, taskres, parsed, responses>>

(* Variant: a failed get_slot is issued a second time. *)
slot_return_retry(r) ==
    /\ task[r] = "blocked"
    /\ request[r].endpoint = "status"
    /\ \E o \in SlotOutcomes :
        IF o.tag = "Err" /\ Len(calls[r]) = 1
        THEN /\ calls' = [calls EXCEPT ![r] =
                    Append([@ EXCEPT ![1].out = o],
                           Call(26, "get_slot", create_rpc_client.url, ""))]
             /\ UNCHANGED <<task, taskres>>
        ELSE /\ Return(r, o)
             /\ Finish(r, IF o.tag = "Ok" THEN OkOk(o, Pending) ELSE OkErr(o.err))
    /\ UNCHANGED <<request, pc, parsed, responses>>

slot_return(r) ==
    /\ task[r] = "blocked"
    /\ request[r].endpoint = "status"
    /\ \E o \in SlotOutcomes :
        /\ Return(r, o)
        /\ Finish(r, IF o.tag = "Ok" THEN OkOk(o, Pending) ELSE OkErr(o.err))
    /\ UNCHANGED <<request, pc, parsed, responses>>

(* Variant: the handler resumes only on a task that produced a result. *)
get_solana_status_join_finished_only(r) ==
    /\ pc[r] = "await_join"
    /\ request[r].endpoint = "status"
    /\ task[r] = "finished"
    /\ Respond(r, CASE taskres[r].tag = "OkOk" -> StatusOk(taskres[r].a.n)
                    [] OTHER -> StatusRpcErr(taskres[r].err))
    /\ UNCHANGED <<request, task, taskres, parsed, calls>>

get_solana_status_join(r) ==
    /\ pc[r] = "await_join"
    /\ request[r].endpoint = "status"
    /\ task[r] \in {"finished", "panicked"}
    /\ Respond(r, CASE taskres[r].tag = "OkOk" -> StatusOk(taskres[r].a.n)
                    [] taskres[r].tag = "OkErr" -> StatusRpcErr(taskres[r].err)
                    [] OTHER -> TaskFailed(taskres[r].err))
    /\ UNCHANGED <<request, task, taskres, parsed, calls>>

(* ---- GET /pool/{pool_id} ---- *)

(* Variant: the parse error does not return early. *)
get_pool_info_start_unchecked(r) ==
    /\ pc[r] = "accepted"
    /\ request[r].endpoint = "pool"
    /\ parsed' = [parsed EXCEPT ![r] = Append(@, "pool_id")]
    /\ Spawn(r)
    /\ UNCHANGED <<request, taskres, calls, responses>>

get_pool_info_start(r) ==
    /\ pc[r] = "accepted"
    /\ request[r].endpoint = "pool"
    /\ parsed' = [parsed EXCEPT ![r] = Append(@, "pool_id")]
    /\ LET k == Pubkey_from_str(request[r].a)
       IN  IF k.ok
           THEN Spawn(r) /\ UNCHANGED responses
           ELSE Respond(r, InvalidPoolId(k.err)) /\ UNCHANGED task
    /\ UNCHANGED <<request, taskres, calls>>

account_closure(r) ==
    /\ task[r] = "ready"
    /\ request[r].endpoint = "pool"
    /\ Issue(r, Call(61, "get_account", create_rpc_client.url, Pubkey_from_str(request[r].a).key))
    /\ task' = [task EXCEPT ![r] = "blocked"]
    /\ UNCHANGED <<request, pc, taskres, parsed, responses>>

account_return(r) ==
    /\ task[r] = "blocked"
    /\ request[r].endpoint = "pool"
    /\ \E o \in AccountOutcomes :
        /\ Return(r, o)
        /\ Finish(r, IF o.tag = "Ok" THEN OkOk(o, Pending) ELSE OkErr(o.err))
    /\ UNCHANGED <<request, pc, parsed, responses>>

get_pool_info_join(r) ==
    /\ pc[r] = "await_join"
    /\ request[r].endpoint = "pool"
    /\ task[r] \in {"finished", "panicked"}
    /\ Respond(r, CASE taskres[r].tag = "OkOk" -> PoolOk(request[r].a.text, taskres[r].a)
                    [] taskres[r].tag = "OkErr" -> PoolRpcErr(taskres[r].err)
                    [] OTHER -> TaskFailed(taskres[r].err))
    /\ UNCHANGED <<request, task, taskres, parsed, calls>>

(* ---- GET /token-pair/{token_a}/{token_b} ---- *)

(* Variant: token B is validated before token A. *)
get_token_pair_info_start_b_first(r) ==
    /\ pc[r] = "accepted"
    /\ request[r].endpoint = "pair"
    /\ LET ka == Pubkey_from_str(request[r].a)
           kb == Pubkey_from_str(request[r].b)
       IN  IF ~kb.ok
           THEN /\ parsed' = [parsed EXCEPT ![r] = @ \o <<"token_b">>]
                /\ Respond(r, InvalidTokenB(kb.err))
                /\ UNCHANGED task
           ELSE IF ~ka.ok
           THEN /\ parsed' = [parsed EXCEPT ![r] = @ \o <<"token_b", "token_a">>]
                /\ Respond(r, InvalidTokenA(ka.err))
                /\ UNCHANGED task
           ELSE /\ parsed' = [parsed EXCEPT ![r] = @ \o <<"token_b", "token_a">>]
                /\ Spawn(r)
                /\ UNCHANGED responses
    /\ UNCHANGED <<request, taskres, calls>>

get_token_pair_info_start(r) ==
    /\ pc[r] = "accepted"
    /\ request[r].endpoint = "pair"
    /\ LET ka == Pubkey_from_str(request[r].a)
           kb == Pubkey_from_str(request[r].b)
       IN  IF ~ka.ok
           THEN /\ parsed' = [parsed EXCEPT ![r] = @ \o <<"token_a">>]
                /\ Respond(r, InvalidTokenA(ka.err))
                /\ UNCHANGED task
           ELSE IF ~kb.ok
           THEN /\ parsed' = [parsed EXCEPT ![r] = @ \o <<"token_a", "token_b">>]
                /\ Respond(r, InvalidTokenB(kb.err))
                /\ UNCHANGED task
           ELSE /\ parsed' = [parsed EXCEPT ![r] = @ \o <<"token_a", "token_b">>]
                /\ Spawn(r)
                /\ UNCHANGED responses
    /\ UNCHANGED <<request, taskres, calls>>

pair_closure(r) ==
    /\ task[r] = "ready"
    /\ request[r].endpoint = "pair"
    /\ Issue(r, Call(112, "get_account", create_rpc_client.url, Pubkey_from_str(request[r].a).key))
    /\ task' = [task EXCEPT ![r] = "blocked"]
    /\ UNCHANGED <<request, pc, taskres, parsed, responses>>

(* Variant: without the ? on the first fetch, token B is fetched whatever
   the first fetch returned. *)
pair_a_return_no_short_circuit(r) ==
    /\ task[r] = "blocked"
    /\ request[r].endpoint = "pair"
    /\ Len(calls[r]) = 1
    /\ \E o \in AccountOutcomes :
        /\ calls' = [calls EXCEPT ![r] =
                Append([@ EXCEPT ![1].out = o],
                       Call(113, "get_account", create_rpc_client.url,
                            Pubkey_from_str(request[r].b).key))]
        /\ UNCHANGED <<task, taskres>>
    /\ UNCHANGED <<request, pc, parsed, responses>>

(* get_account(&token_a_pubkey)? : on Err the closure returns at once, on Ok
   it goes on to get_account(&token_b_pubkey) and blocks there. *)
pair_a_return(r) ==
    /\ task[r] = "blocked"
    /\ request[r].endpoint = "pair"
    /\ Len(calls[r]) = 1
    /\ \E o \in AccountOutcomes :
        IF o.tag = "Ok"
        THEN /\ calls' = [calls EXCEPT ![r] =
                    Append([@ EXCEPT ![1].out = o],
                           Call(113, "get_account", create_rpc_client.url,
                                Pubkey_from_str(request[r].b).key))]
             /\ UNCHANGED <<task, taskres>>
        ELSE /\ Return(r, o)
             /\ Finish(r, OkErr(o.err))
    /\ UNCHANGED <<request, pc, parsed, responses>>

(* Variant: a failed second fetch is replaced by an empty account. *)
pair_b_return_default(r) ==
    /\ task[r] = "blocked"
    /\ request[r].endpoint = "pair"
    /\ Len(calls[r]) = 2
    /\ \E o \in AccountOutcomes :
        /\ Return(r, o)
        /\ Finish(r, OkOk(calls[r][1].out, IF o.tag = "Ok" THEN o ELSE OkOut(0, 0)))
    /\ UNCHANGED <<request, pc, parsed, responses>>

pair_b_return(r) ==
    /\ task[r] = "blocked"
    /\ request[r].endpoint = "pair"
    /\ Len(calls[r]) = 2
    /\ \E o \in AccountOutcomes :
        /\ Return(r, o)
        /\ Finish(r, IF o.tag = "Ok" THEN OkOk(calls[r][1].out, o) ELSE OkErr(o.err))
    /\ UNCHANGED <<request, pc, parsed, responses>>

get_token_pair_info_join(r) ==
    /\ pc[r] = "await_join"
    /\ request[r].endpoint = "pair"
    /\ task[r] \in {"finished", "panicked"}
    /\ Respond(r, CASE taskres[r].tag = "OkOk" ->
                         PairOk(request[r].a.text, request[r].b.text,
                                taskres[r].a, taskres[r].b)
                    [] taskres[r].tag = "OkErr" -> PairRpcErr(taskres[r].err)
                    [] OTHER -> TaskFailed(taskres[r].err))
    /\ UNCHANGED <<request, task, taskres, parsed, calls>>

(* The blocking task ends without a result (the closure panics, or the runtime
   cancels it before it runs): awaiting the JoinHandle yields Err(JoinError). *)
task_fail(r) ==
    /\ task[r] \in {"ready", "blocked"}
    /\ task' = [task EXCEPT ![r] = "panicked"]
    /\ taskres' = [taskres EXCEPT ![r] = JoinErr("task panicked")]
    /\ UNCHANGED <<request, pc, parsed, calls, responses>>

(* ---- GET /transactions/{token} ---- *)

get_token_transactions_start(r) ==
    /\ pc[r] = "accepted"
    /\ request[r].endpoint = "tx"
    /\ Issue(r, Call(150, "http_get", SolscanUrl, request[r].a.text))
    /\ pc' = [pc EXCEPT ![r] = "await_send"]
    /\ UNCHANGED <<request, task, taskres, parsed, responses>>

(* client.get(&url).send().await : Err on a transport failure, Ok(response)
   for every HTTP status. *)
send_return(r) ==
    /\ pc[r] = "await_send"
    /\ \E o \in SendOutcomes :
        /\ Return(r, o)
        /\ IF o.tag = "Ok"
           THEN pc' = [pc EXCEPT ![r] = "await_body"] /\ UNCHANGED responses
           ELSE Respond(r, TxFetchErr(o.err))
    /\ UNCHANGED <<request, task, taskres, parsed>>

(* response.json::<serde_json::Value>().await *)
body_return(r) ==
    /\ pc[r] = "await_body"
    /\ \E raw \in RawBodies :
        /\ calls' = [calls EXCEPT ![r] = [@ EXCEPT ![1].body = raw]]
        /\ LET data == json_parse(raw)
           IN  Respond(r, IF data.ok THEN TxOk(data.value) ELSE TxParseErr(data.err))
    /\ UNCHANGED <<request, task, taskres, parsed>>

Next == \E r \in Reqs :
    \/ get_solana_status_start(r)
    \/ slot_closure(r)
    \/ slot_return(r)
    \/ get_solana_status_join(r)
    \/ get_pool_info_start(r)
    \/ account_closure(r)
    \/ account_return(r)
    \/ get_pool_info_join(r)
    \/ get_token_pair_info_start(r)
    \/ pair_closure(r)
    \/ pair_a_return(r)
    \/ pair_b_return(r)
    \/ get_token_pair_info_join(r)
    \/ task_fail(r)
    \/ get_token_transactions_start(r)
    \/ send_return(r)
    \/ body_return(r)

Spec == Init /\ [][Next]_vars

(* Scheduling: the executor keeps polling a handler that can run and the
   blocking pool keeps running a queued closure.  Nothing obliges an upstream
   service to answer: the return actions and task_fail carry no fairness. *)
HandlerStep(r) ==
    \/ get_solana_status_start(r)
    \/ get_solana_status_join(r)
    \/ get_pool_info_start(r)
    \/ get_pool_info_join(r)
    \/ get_token_pair_info_start(r)
    \/ get_token_pair_info_join(r)
    \/ get_token_transactions_start(r)

WorkerStep(r) == slot_closure(r) \/ account_closure(r) \/ pair_closure(r)

FairSpec ==
    /\ Spec
    /\ \A r \in Reqs : WF_vars(HandlerStep(r)) /\ WF_vars(WorkerStep(r))

-----------------------------------------------------------------------------
(* Vocabulary of the properties. *)

Done(r) == pc[r] = "done"
Resp(r) == responses[r][1]
Endpoint(r) == request[r].endpoint
ValidA(r) == Pubkey_from_str(request[r].a).ok
ValidB(r) == Pubkey_from_str(request[r].b).ok
IsErrorBody(resp) == DOMAIN resp.body = {"error"}
CallFailed(c) == c.out.tag = "Err"
(* The remote service answered with a failure: an RPC error, or an HTTP
   answer whose status is not a success. *)
UpstreamFailure(c) ==
    \/ c.op # "http_get" /\ c.out.tag = "Err"
    \/ c.op = "http_get" /\ c.out.tag = "Ok" /\ c.out.n \notin 200..299
SomeCall(r, P(_)) == \E i \in DOMAIN calls[r] : P(calls[r][i])
(* r is suspended inside an upstream call that has not returned. *)
Blocked(r) == task[r] = "blocked" \/ pc[r] \in {"await_send", "await_body"}
TaskFailedPrefix == <<"Task", "failed">>
FailedToGetPrefix == <<"Failed", "to", "get">>

-----------------------------------------------------------------------------
(* C1: on /pool/{pool_id} and /token-pair/{a}/{b}, a request with an address
   that does not parse never issues an upstream call (no blocking task is ever
   spawned for it) and its response is 400. *)
C1_InvalidAddressIs400NoUpstream ==
    \A r \in Reqs :
        (\/ Endpoint(r) = "pool" /\ ~ValidA(r)
         \/ Endpoint(r) = "pair" /\ (~ValidA(r) \/ ~ValidB(r)))
        => /\ calls[r] = <<>>
           /\ task[r] = "none"
           /\ Done(r) => Resp(r).status = 400 /\ IsErrorBody(Resp(r))

C1_Witness ==
    \E r \in Reqs :
        /\ Endpoint(r) = "pair" /\ ValidA(r) /\ ~ValidB(r)
        /\ Done(r) /\ Resp(r).status = 400 /\ calls[r] = <<>>

(* C2: in the dual lookup with address A invalid, B is never parsed, nothing
   is fetched, and the response is the 400 naming token A, whatever B is. *)
C2_InvalidAShortCircuits ==
    \A r \in Reqs :
        Endpoint(r) = "pair" /\ ~ValidA(r)
        => /\ \A i \in DOMAIN parsed[r] : parsed[r][i] # "token_b"
           /\ calls[r] = <<>>
           /\ task[r] = "none"
           /\ Done(r) => /\ Resp(r).status = 400
                         /\ StartsWith(Resp(r).body.error,
                                       <<"Invalid", "token", "A", "address">>)

C2_Witness ==
    \E r \in Reqs :
        /\ Endpoint(r) = "pair" /\ ~ValidA(r) /\ ~ValidB(r)
        /\ Done(r) /\ parsed[r] = <<"token_a">>

(* C3: in the dual lookup with both addresses valid, a 200 is sent only when
   both fetches returned Ok, and a failed fetch gives a 500 whose body is
   {error} alone: no token_a or token_b object. *)
C3_NoPartialSuccess ==
    \A r \in Reqs :
        Endpoint(r) = "pair" /\ ValidA(r) /\ ValidB(r) /\ Done(r)
        => /\ Resp(r).status = 200
                => /\ Len(calls[r]) = 2
                   /\ \A i \in 1..2 : calls[r][i].out.tag = "Ok"
           /\ SomeCall(r, CallFailed)
                => /\ Resp(r).status = 500
                   /\ IsErrorBody(Resp(r))

C3_Witness ==
    \E r \in Reqs :
        /\ Endpoint(r) = "pair" /\ Done(r) /\ Len(calls[r]) = 2
        /\ calls[r][1].out.tag = "Ok" /\ calls[r][2].out.tag = "Err"
        /\ Resp(r).status = 500

(* C4: on every endpoint, once the remote service has answered a call of the
   request with a failure (RPC error, or non-success HTTP status with or
   without a JSON body), the response is 500 {error} and never 200. *)
C4_UpstreamFailureIs500 ==
    \A r \in Reqs :
        Done(r) /\ SomeCall(r, UpstreamFailure)
        => Resp(r).status = 500 /\ IsErrorBody(Resp(r))

(* C5: /transactions/{token} never answers 400; a JSON body is relayed with
   status 200 and denotes the same JSON value as the upstream body; a body
   that is not JSON gives 500 "Failed to parse"; a failed GET gives 500
   "Failed to fetch". *)
C5_TransactionsPassThrough ==
    \A r \in Reqs :
        Endpoint(r) = "tx" /\ Done(r)
        => LET c == calls[r][1]
           IN  /\ Resp(r).status # 400
               /\ c.arg = request[r].a.text
               /\ c.out.tag = "Ok" /\ c.body.wf
                    => /\ Resp(r).status = 200
                       /\ json_parse(RawBody(TRUE, json_serialize(Resp(r).body))).value
                            = json_parse(c.body).value
               /\ c.out.tag = "Ok" /\ ~c.body.wf
                    => /\ Resp(r).status = 500
                       /\ StartsWith(Resp(r).body.error, <<"Failed", "to", "parse">>)
               /\ c.out.tag = "Err"
                    => /\ Resp(r).status = 500
                       /\ StartsWith(Resp(r).body.error, <<"Failed", "to", "fetch">>)

C5_Witness ==
    \E r \in Reqs :
        /\ Endpoint(r) = "tx" /\ ~Pubkey_from_str(request[r].a).ok /\ Done(r)
        /\ calls[r][1].body.wf
        /\ Len(calls[r][1].body.members) = 2
        /\ Resp(r).status = 200
        /\ json_serialize(Resp(r).body) # calls[r][1].body.members

(* C6: for the three handlers that use spawn_blocking, a failed join gives a
   500 whose message starts with "Task failed", an RPC error gives a 500 whose
   message starts with "Failed to get", no message starts with both, and a
   "Task failed" message occurs only after a failed join. *)
C6_TaskFailedDistinct ==
    \A r \in Reqs :
        Endpoint(r) \in {"status", "pool", "pair"} /\ Done(r)
        => /\ task[r] = "panicked"
                => /\ Resp(r).status = 500
                   /\ StartsWith(Resp(r).body.error, TaskFailedPrefix)
           /\ task[r] = "finished" /\ taskres[r].tag = "OkErr"
                => /\ Resp(r).status = 500
                   /\ StartsWith(Resp(r).body.error, FailedToGetPrefix)
           /\ Resp(r).status # 200
                => /\ ~(/\ StartsWith(Resp(r).body.error, TaskFailedPrefix)
                        /\ StartsWith(Resp(r).body.error, FailedToGetPrefix))
                   /\ StartsWith(Resp(r).body.error, TaskFailedPrefix)
                        => task[r] = "panicked"

C6_Witness ==
    \E r, q \in Reqs :
        /\ Endpoint(r) = "pool" /\ Done(r) /\ task[r] = "panicked"
        /\ Endpoint(q) = "pool" /\ Done(q) /\ taskres[q].tag = "OkErr"

(* C7: no upstream call is retried: every call site of a request runs at most
   once, at most one call is issued for status, pool and transactions and at
   most two for the dual lookup, and once a call has failed or the blocking
   task has failed the request issues no further call. *)
C7_CallBudget ==
    \A r \in Reqs :
        /\ Len(calls[r]) <= (IF Endpoint(r) = "pair" THEN 2 ELSE 1)
        /\ \A i, j \in DOMAIN calls[r] : calls[r][i].site = calls[r][j].site => i = j

C7_NoCallAfterFailure ==
    \A r \in Reqs :
        (SomeCall(r, CallFailed) \/ task[r] = "panicked") => calls'[r] = calls[r]

(* C7 as one formula: the call budget always holds and no step issues a call
   after a failure. *)
C7_NoRetry == []C7_CallBudget /\ [][C7_NoCallAfterFailure]_vars

C7_Witness ==
    \E r, q \in Reqs :
        /\ Endpoint(r) = "pair" /\ Done(r) /\ Len(calls[r]) = 1 /\ SomeCall(r, CallFailed)
        /\ Endpoint(q) = "status" /\ Done(q) /\ SomeCall(q, CallFailed)

(* C8: two requests to the same endpoint with the same path parameters whose
   own upstream calls had the same outcomes get the same status and body,
   whatever was handled before or between them. *)
C8_ResponseDependsOnOwnRequestOnly ==
    \A r, q \in Reqs :
        /\ Done(r) /\ Done(q)
        /\ request[r] = request[q]
        /\ calls[r] = calls[q]
        => /\ Resp(r).status = Resp(q).status
           /\ Resp(r).body = Resp(q).body

C8_Witness ==
    \E r, q \in Reqs :
        /\ r # q /\ Done(r) /\ Done(q)
        /\ request[r] = request[q] /\ Endpoint(r) = "status"
        /\ calls[r] = calls[q] /\ Len(calls[r]) = 1 /\ calls[r][1].out.tag = "Ok"

(* C9: a request has at most one response, has it exactly when its handler is
   done, and never changes it; a request suspended in an upstream call has no
   response, so one whose call never returns never responds; and every
   request that does not stay suspended for ever in such a call eventually
   responds, whatever the other requests do. *)
C9_OneResponse ==
    \A r \in Reqs :
        /\ Len(responses[r]) <= 1
        /\ Done(r) <=> Len(responses[r]) = 1
        /\ Blocked(r) => responses[r] = <<>>

C9_ResponseIsFinal ==
    \A r \in Reqs : responses[r] # <<>> => responses'[r] = responses[r] /\ Done(r)'

(* C9 as one formula, under the scheduling fairness of FairSpec. *)
C9_RespondsUnlessUpstreamHangs ==
    /\ []C9_OneResponse
    /\ [][C9_ResponseIsFinal]_vars
    /\ \A r \in Reqs : <>[]Blocked(r) \/ <>Done(r)

C9_Witness ==
    \E r, q \in Reqs :
        /\ Blocked(r) /\ responses[r] = <<>>
        /\ Done(q) /\ Len(responses[q]) = 1 /\ calls[q] # <<>>

(* C10: in the dual lookup the fetch of A (line 112) comes first and the fetch
   of B (line 113) is issued only once A's fetch has returned Ok; when A's
   fetch fails B is never fetched and the response is 500. *)
C10_SequentialFetches ==
    \A r \in Reqs :
        Endpoint(r) = "pair"
        => /\ Len(calls[r]) >= 1
                => /\ calls[r][1].site = 112
                   /\ calls[r][1].arg = Pubkey_from_str(request[r].a).key
           /\ Len(calls[r]) >= 2
                => /\ calls[r][1].out.tag = "Ok"
                   /\ calls[r][2].site = 113
                   /\ calls[r][2].arg = Pubkey_from_str(request[r].b).key
           /\ Len(calls[r]) >= 1 /\ calls[r][1].out.tag = "Err"
                => /\ Len(calls[r]) = 1
                   /\ Done(r) => Resp(r).status = 500

C10_Witness ==
    \E r \in Reqs :
        /\ Endpoint(r) = "pair" /\ Done(r)
        /\ Len(calls[r]) = 1 /\ calls[r][1].out.tag = "Err"
        /\ Resp(r).status = 500
====
